---- MODULE Spec2Model ----
(***************************************************************************)
(* lekko-setup-action: one run of the action (run.ts) and of the exported  *)
(* installer getLekko, in its two implementations: lekko.ts (API-key       *)
(* exchange) and the earlier one without an API key (unnamed/part_000).    *)
(*                                                                         *)
(* JavaScript strings are TLA+ strings.  A value that is either a string   *)
(* or an Error object is a record: [str |-> s] for a string, [message |->  *)
(* m] for an Error object, [null |-> TRUE] for null.  Every awaited call   *)
(* to the outside (tool cache, token endpoint, release registry, download, *)
(* tar, PATH lookup, child process) is one step whose outcome the          *)
(* environment chooses.  Every effect is appended to `trace`.              *)
(***************************************************************************)
EXTENDS Integers, Sequences, FiniteSets, TLC

\* ---------------------------------------------------------------- bounds
MaxVerLen == 2      \* longest version string built from VersionChars
MaxAssets == 2      \* longest asset list of a release the registry returns

\* ------------------------------------------------------------ JS helpers
\* String.prototype.indexOf: 0-based index of the first occurrence, or -1.
indexOf(s, sub) ==
  LET n == Len(s)
      m == Len(sub)
      hits == {i \in 1..(n - m + 1) : SubSeq(s, i, i + m - 1) = sub}
  IN  IF hits = {} THEN -1
      ELSE (CHOOSE i \in hits : \A j \in hits : i <= j) - 1

\* `needle` occurs in `s`.
Mentions(s, needle) == indexOf(s, needle) >= 0

\* path.join(dir, name) on a POSIX host.
join(dir, name) == dir \o "/" \o name

\* `p` lies strictly below directory `dir`.
Inside(p, dir) == indexOf(p, dir \o "/") = 0

Str(s) == [str |-> s]
Err(m) == [message |-> m]
Null == [null |-> TRUE]
None == [none |-> TRUE]

\* error.ts isError: the value is an object carrying a message.
isError(value) == "message" \in DOMAIN value

\* What a missing argument evaluates to.
Undefined == "undefined"

\* --------------------------------------------------------- lekko.ts code
\* lekko.ts:25
versionPrefix == "v"

\* The tag without the prefix test of lekko.ts:203.
releaseTagAlwaysPrefixed(version) == versionPrefix \o version

\* lekko.ts:202-207
releaseTagForVersion(version) ==
  IF indexOf(version, versionPrefix) = 0 THEN version
  ELSE versionPrefix \o version

\* The architecture switch with the x64 case naming the wrong token.
resolveArchitectureAmd64(arch) ==
  CASE arch = "x64" -> Str("amd64")
    [] arch = "arm64" -> Str("arm64")
    [] OTHER -> Err("The \"" \o arch \o "\" architecture is not supported with a Lekko release.")

\* lekko.ts:122-135: the architecture switch.  A [str] token or an Error.
resolveArchitecture(arch) ==
  CASE arch = "x64" -> Str("x86_64")
    [] arch = "arm64" -> Str("arm64")
    [] OTHER -> Err("The \"" \o arch \o "\" architecture is not supported with a Lekko release.")

\* lekko.ts:136-150: the platform switch.
resolvePlatform(platform) ==
  CASE platform = "linux" -> Str("Linux")
    [] platform = "darwin" -> Str("Darwin")
    [] OTHER -> Err("The \"" \o platform \o "\" platform is not supported with a Lekko release.")

\* lekko.ts:151
assetNameFor(platform, architecture) ==
  "lekko_" \o platform \o "_" \o architecture \o ".tar.gz"

\* lekko.ts:170-174 and 189-193: the first asset whose name is assetName.
RECURSIVE findAsset(_, _)
findAsset(assets, assetName) ==
  IF assets = <<>> THEN None
  ELSE IF assetName = Head(assets).name THEN Str(Head(assets).url)
  ELSE findAsset(Tail(assets), assetName)

\* lekko.ts:175-177 (latest) and 194-196 (explicit); part_000:135-137 words
\* the latest case like the explicit one.
notFoundMessage(impl, version, platform, architecture) ==
  IF version = "latest" /\ impl = "lekko.ts"
  THEN "Unable to find latest Lekko version for platform \"" \o platform
         \o "\" and architecture \"" \o architecture \o "\"."
  ELSE "Unable to find Lekko version \"" \o version \o "\" for platform \""
         \o platform \o "\" and architecture \"" \o architecture \o "\"."

\* ------------------------------------------------------------ environment
VersionChars == {"v", "1"}

RECURSIVE StringsUpTo(_)
StringsUpTo(n) ==
  IF n = 0 THEN {""}
  ELSE {""} \cup {c \o s : c \in VersionChars, s \in StringsUpTo(n - 1)}

\* The `version` input: "latest", or any short string (the empty one too).
Versions == StringsUpTo(MaxVerLen) \cup {"latest"}
\* A version other than every member of Versions, for a foreign cache entry.
OtherVersion == "9.9.9"

Archs == {"x64", "arm64", "ia32"}          \* os.arch()
Platforms == {"linux", "darwin", "win32"}  \* os.platform()

GithubTokens == {"", "T"}   \* the github_token input
ApiKeys == {"", "K"}        \* the apikey input
ExchangedToken == "G"       \* the token the exchange endpoint hands out

AssetNames ==
  {assetNameFor("Linux", "x86_64"), assetNameFor("Darwin", "arm64"), "checksums.txt"}

Digit(i) == SubSeq("0123456789", i + 1, i + 1)

\* The asset lists of a release: the asset at position i has url .../i.
AssetLists ==
  UNION {
    {[i \in 1..n |-> [name |-> f[i], url |-> "https://api.github.com/assets/" \o Digit(i)]]
       : f \in [1..n -> AssetNames]}
    : n \in 0..MaxAssets}

\* What a failing library call can throw: an Error object with a message,
\* or (JavaScript permits it) a value that carries none.
Thrown(message) == {Err(message), [nonError |-> TRUE]}

\* The tool cache (@actions/tool-cache) as a set of keys; an entry's path.
CacheKey(tool, v, arch) == <<tool, v, arch>>
CachePath(key) == "/opt/hostedtoolcache/" \o key[1] \o "/" \o key[2] \o "/" \o key[3]

\* tc.find: the cached path, or "" when there is no entry.
tcFind(c, tool, v, arch) ==
  IF CacheKey(tool, v, arch) \in c THEN CachePath(CacheKey(tool, v, arch)) ELSE ""

ExtractPath == "/tmp/extract"
DownloadPath == "/tmp/download"
SystemBin == "/usr/local/bin"

\* ------------------------------------------------------------------ state
VARIABLES
  inputs,        \* the action's inputs, read by core.getInput
  hostArch,      \* os.arch()
  hostPlatform,  \* os.platform()
  entry,         \* "run": run() of run.ts; "getLekko": a call of the exported getLekko
  impl,          \* the module behind "./lekko": "lekko.ts" or "part_000"
  pc,            \* position of the single thread of control
  args,          \* the arguments getLekko was called with
  githubToken,   \* getLekko's githubToken variable (lekko.ts:44 reassigns it)
  cache,         \* the tool cache: a set of keys
  fsBin,         \* the directories that hold an executable named lekko
  PATH,          \* the search path, first directory first
  trace,         \* the effects so far, in order
  downloadURL,   \* getLekko's downloadURL
  layout,        \* where the extracted archive holds the executable
  ret,           \* what getLekko returned (None before)
  binaryPath,    \* runSetup's binaryPath
  result,        \* what runSetup returned (None before)
  thrown,        \* the exception propagating (None when there is none)
  failed         \* the messages given to core.setFailed, in order

vars == <<inputs, hostArch, hostPlatform, entry, impl, pc, args, githubToken,
          cache, fsBin, PATH, trace, downloadURL, layout, ret, binaryPath,
          result, thrown, failed>>

env == <<inputs, hostArch, hostPlatform, entry, impl>>

NoArgs == [version |-> "", apikey |-> "", githubToken |-> ""]

\* core.getInput
getInput(name) == inputs[name]

\* A tool cache left by earlier runs: empty, or one entry, for this version
\* or for another one; the entry holds the executable under bin, at its
\* root, or not at all.
InitCaches(v, arch) ==
  {[keys |-> {}, bins |-> {}]}
  \cup {[keys |-> {CacheKey("lekko", OtherVersion, arch)}, bins |-> {}]}
  \cup {[keys |-> {CacheKey("lekko", v, arch)}, bins |-> b]
          : b \in {{}, {join(CachePath(CacheKey("lekko", v, arch)), "bin")},
                       {CachePath(CacheKey("lekko", v, arch))}}}

Init ==
  /\ inputs \in [version : Versions, github_token : GithubTokens, apikey : ApiKeys]
  /\ hostArch \in Archs
  /\ hostPlatform \in Platforms
  /\ entry \in {"run", "getLekko"}
  /\ impl \in {"lekko.ts", "part_000"}
  /\ \E c \in InitCaches(inputs.version, hostArch), other \in SUBSET {SystemBin} :
       /\ cache = c.keys
       /\ fsBin = c.bins \cup other
  /\ PATH = <<SystemBin>>
  /\ IF entry = "run"
     THEN /\ pc = "run"
          /\ args = NoArgs
          /\ githubToken = ""
     ELSE \* a caller that passes the inputs in the declared order
          /\ pc = "find"
          /\ args = [version |-> inputs.version,
                     apikey |-> IF impl = "lekko.ts" THEN inputs.apikey ELSE "",
                     githubToken |-> inputs.github_token]
          /\ githubToken = inputs.github_token
  /\ trace = <<>>
  /\ downloadURL = ""
  /\ layout = ""
  /\ ret = None
  /\ binaryPath = ""
  /\ result = None
  /\ thrown = None
  /\ failed = <<>>

\* ---------------------------------------------------------------- steps
Log(event) == trace' = Append(trace, event)
Log2(first, second) == trace' = trace \o <<first, second>>

\* An exception leaves getLekko and runSetup; run() catches it, a direct
\* caller of getLekko receives it.
Throw(e) ==
  /\ thrown' = e
  /\ pc' = IF entry = "run" THEN "settle" ELSE "returned"

\* getLekko returns `value`.
Return(value) ==
  /\ ret' = value
  /\ pc' = "returned"

\* run.ts:44-59: the inputs are read and checked, then getLekko is called
\* with two arguments, (version, githubToken).  lekko.ts declares
\* (version, apikey, githubToken): the second argument binds to apikey and
\* githubToken is left undefined.
RunSetupStart ==
  /\ pc = "run"
  /\ LET version == getInput("version")
         token == getInput("github_token")
     IN  IF version = ""
         THEN /\ result' = Err("a version was not provided")
              /\ pc' = "settle"
              /\ UNCHANGED <<args, githubToken>>
         ELSE IF token = ""
         THEN /\ result' = Err("No github_token supplied, won't be able to download lekko")
              /\ pc' = "settle"
              /\ UNCHANGED <<args, githubToken>>
         ELSE /\ args' = IF impl = "lekko.ts"
                         THEN [version |-> version, apikey |-> token, githubToken |-> Undefined]
                         ELSE [version |-> version, apikey |-> "", githubToken |-> token]
              /\ githubToken' = args'.githubToken
              /\ pc' = "find"
              /\ UNCHANGED result
  /\ UNCHANGED <<env, cache, fsBin, PATH, trace, downloadURL, layout, ret,
                 binaryPath, thrown, failed>>

\* afterFind without the exchange of lekko.ts:38-45.
afterFindSkipsExchange(module, path, apikey) ==
  IF path /= "" THEN "returned" ELSE "locate"

\* afterFind without the early return of lekko.ts:33-36.
afterFindNoEarlyReturn(module, path, apikey) ==
  IF module = "lekko.ts" /\ Len(apikey) > 0 THEN "exchange" ELSE "locate"

\* lekko.ts:33-38 (part_000:32-37): where getLekko goes after the lookup:
\* it returns on a hit, exchanges the API key when there is one (lekko.ts
\* only), and otherwise resolves the download URL.
afterFind(module, path, apikey) ==
  IF path /= "" THEN "returned"
  ELSE IF module = "lekko.ts" /\ Len(apikey) > 0 THEN "exchange"
  ELSE "locate"

\* lekko.ts:32-38 (part_000:31-35): the cache lookup.  tc.find rejects an
\* empty version.  On a hit the cached path is returned at once.
Find ==
  /\ pc = "find"
  /\ IF args.version = ""
     THEN /\ \E e \in Thrown("versionSpec parameter is required") : Throw(e)
          /\ UNCHANGED <<ret, trace>>
     ELSE LET path == tcFind(cache, "lekko", args.version, hostArch)
          IN  /\ Log([op |-> "find", key |-> CacheKey("lekko", args.version, hostArch),
                      found |-> path])
              /\ pc' = afterFind(impl, path, args.apikey)
              /\ ret' = IF path /= "" THEN Str(path) ELSE ret
              /\ UNCHANGED thrown
  /\ UNCHANGED <<env, args, githubToken, cache, fsBin, PATH, downloadURL,
                 layout, binaryPath, result, failed>>

\* The bodies the token endpoint can answer with.
TokenBodies == {[token |-> ExchangedToken], [token |-> ""], [other |-> ""]}

\* tokenFromResponse without the length test of lekko.ts:102.
tokenFromResponseAcceptsEmpty(ok, statusText, data) ==
  IF ~ok THEN Err("Error getting developer access token: " \o statusText)
  ELSE IF "token" \notin DOMAIN data THEN Err("No token found in response")
  ELSE Str(data.token)

\* lekko.ts:95-108: what getGithubToken makes of a response.
tokenFromResponse(ok, statusText, data) ==
  IF ~ok THEN Err("Error getting developer access token: " \o statusText)
  ELSE IF "token" \notin DOMAIN data \/ Len(data.token) = 0
  THEN Err("No token found in response")
  ELSE Str(data.token)

\* lekko.ts:44 left out: the token passed in stays.
credentialKeptAfterExchange(current, exchanged) == current

\* lekko.ts:44: the exchanged token replaces the token passed in.
credentialAfterExchange(current, exchanged) == exchanged

\* lekko.ts:38-45 with getGithubToken (83-109): one POST carrying the API
\* key; the request can fail outright, or answer with any status and body.
Exchange ==
  /\ pc = "exchange"
  /\ \/ /\ Log([op |-> "exchange", apikey |-> args.apikey, responded |-> FALSE,
                ok |-> FALSE, data |-> [other |-> ""]])
        /\ \E e \in Thrown("request to web.api.lekko.dev failed") : Throw(e)
        /\ UNCHANGED <<ret, githubToken>>
     \/ \E ok \in BOOLEAN, data \in TokenBodies :
          LET token == tokenFromResponse(ok, IF ok THEN "OK" ELSE "Unauthorized", data)
          IN  /\ Log([op |-> "exchange", apikey |-> args.apikey, responded |-> TRUE,
                      ok |-> ok, data |-> data])
              /\ IF isError(token)
                 THEN /\ Return(token)
                      /\ UNCHANGED <<githubToken, thrown>>
                 ELSE /\ githubToken' = credentialAfterExchange(githubToken, token.str)
                      /\ pc' = "locate"
                      /\ UNCHANGED <<ret, thrown>>
  /\ UNCHANGED <<env, args, cache, fsBin, PATH, downloadURL, layout,
                 binaryPath, result, failed>>

\* lekko.ts:121-151: both switches, then the asset's name.  The
\* architecture is looked at first.
resolveAssetName(arch, platform) ==
  LET architecture == resolveArchitecture(arch)
      plat == resolvePlatform(platform)
  IN  IF isError(architecture) THEN architecture
      ELSE IF isError(plat) THEN plat
      ELSE Str(assetNameFor(plat.str, architecture.str))

\* lekko.ts:170-177 and 189-196: the scan of one release's assets.
scanAssets(module, version, arch, platform, assets) ==
  LET found == findAsset(assets, resolveAssetName(arch, platform).str)
  IN  IF found /= None THEN found
      ELSE Err(notFoundMessage(module, version, resolvePlatform(platform).str,
                               resolveArchitecture(arch).str))

\* The trace's record of the host's resolution (no effect outside).
Resolved(name) ==
  [op |-> "resolve", arch |-> hostArch, platform |-> hostPlatform, result |-> name]

\* octokit's auth option (lekko.ts:155-160).
octokitAuth(token) == token

\* lekko.ts:47-51 with getDownloadURL (117-197; part_000:77-156).  An
\* unsupported host returns before any request.  "latest" lists one release
\* and reads releases[0]; any other version asks for the release tagged
\* releaseTagForVersion(version).  octokit throws on a non-2xx answer.
Locate ==
  /\ pc = "locate"
  /\ LET name == resolveAssetName(hostArch, hostPlatform)
     IN  IF isError(name)
         THEN /\ Log(Resolved(name))
              /\ Return(name)
              /\ UNCHANGED <<downloadURL, thrown>>
         ELSE IF args.version = "latest"
         THEN \/ /\ Log2(Resolved(name), [op |-> "releases", auth |-> octokitAuth(githubToken),
                         per_page |-> 1, ok |-> FALSE, data |-> <<>>])
                 /\ \E e \in Thrown("Bad credentials") : Throw(e)
                 /\ UNCHANGED <<ret, downloadURL>>
              \/ \* no release at all: releases[0] is undefined
                 /\ Log2(Resolved(name), [op |-> "releases", auth |-> octokitAuth(githubToken),
                         per_page |-> 1, ok |-> TRUE, data |-> <<>>])
                 /\ Throw(Err("Cannot read properties of undefined (reading 'assets')"))
                 /\ UNCHANGED <<ret, downloadURL>>
              \/ \E assets \in AssetLists :
                   /\ Log2(Resolved(name), [op |-> "releases", auth |-> octokitAuth(githubToken),
                           per_page |-> 1, ok |-> TRUE, data |-> <<[assets |-> assets]>>])
                   /\ LET url == scanAssets(impl, args.version, hostArch, hostPlatform, assets)
                      IN  IF isError(url)
                          THEN Return(url) /\ UNCHANGED <<downloadURL, thrown>>
                          ELSE /\ downloadURL' = url.str
                               /\ pc' = "download"
                               /\ UNCHANGED <<ret, thrown>>
         ELSE LET tag == releaseTagForVersion(args.version)
              IN  \/ /\ Log2(Resolved(name), [op |-> "releaseByTag", auth |-> octokitAuth(githubToken),
                             tag |-> tag, ok |-> FALSE, data |-> <<>>])
                     /\ \E e \in Thrown("Not Found") : Throw(e)
                     /\ UNCHANGED <<ret, downloadURL>>
                  \/ \E assets \in AssetLists :
                       /\ Log2(Resolved(name), [op |-> "releaseByTag", auth |-> octokitAuth(githubToken),
                               tag |-> tag, ok |-> TRUE, data |-> <<[assets |-> assets]>>])
                       /\ LET url == scanAssets(impl, args.version, hostArch, hostPlatform, assets)
                          IN  IF isError(url)
                              THEN Return(url) /\ UNCHANGED <<downloadURL, thrown>>
                              ELSE /\ downloadURL' = url.str
                                   /\ pc' = "download"
                                   /\ UNCHANGED <<ret, thrown>>
  /\ UNCHANGED <<env, args, githubToken, cache, fsBin, PATH, layout,
                 binaryPath, result, failed>>

\* The credential handed to tc.downloadTool: an Authorization header
\* "Bearer <token>" in lekko.ts:59-63, the bare token as the auth argument
\* in part_000:49-53.
downloadAuth(module, token) ==
  IF module = "lekko.ts" THEN "Bearer " \o token ELSE token

\* lekko.ts:53-67 (part_000:43-56): the archive download.
Download ==
  /\ pc = "download"
  /\ Log([op |-> "download", url |-> downloadURL, auth |-> downloadAuth(impl, githubToken)])
  /\ \/ /\ \E e \in Thrown("Unexpected HTTP response: 404") : Throw(e)
     \/ /\ pc' = "extract"
        /\ UNCHANGED thrown
  /\ UNCHANGED <<env, args, githubToken, cache, fsBin, PATH, downloadURL,
                 layout, ret, binaryPath, result, failed>>

\* Where an archive can hold the executable, relative to its root.
Layouts == {"bin", "lekko/bin"}

\* lekko.ts:69-73 (part_000:58-62): tc.extractTar.
Extract ==
  /\ pc = "extract"
  /\ Log([op |-> "extract", file |-> DownloadPath])
  /\ \/ /\ \E e \in Thrown("tar exited with code 2") : Throw(e)
        /\ UNCHANGED layout
     \/ /\ layout' \in Layouts
        /\ pc' = "cache"
        /\ UNCHANGED thrown
  /\ UNCHANGED <<env, args, githubToken, cache, fsBin, PATH, downloadURL,
                 ret, binaryPath, result, failed>>

\* The directory given to tc.cacheDir: the extraction root in lekko.ts:75,
\* its "lekko" subdirectory in part_000:65-70.
cacheSource(module) ==
  IF module = "lekko.ts" THEN ExtractPath ELSE join(ExtractPath, "lekko")

\* The key the install is cached under (lekko.ts:75).
cacheKeyFor(version, arch) == CacheKey("lekko", version, arch)

\* lekko.ts:74-77 (part_000:64-72): tc.cacheDir copies the source directory
\* into the cache and returns the entry's path.  It throws when the source
\* directory does not exist.
Cache ==
  /\ pc = "cache"
  /\ LET key == cacheKeyFor(args.version, hostArch)
         source == cacheSource(impl)
         \* the executable's directory relative to the source, "" when the
         \* source directory is missing from the extracted tree
         rel == IF source = ExtractPath THEN layout
                ELSE IF layout = "lekko/bin" THEN "bin" ELSE ""
     IN  /\ Log([op |-> "cacheDir", source |-> source, key |-> key])
         /\ \/ /\ \E e \in Thrown("ENOENT: no such file or directory") : Throw(e)
               /\ UNCHANGED <<cache, fsBin, ret>>
            \/ /\ rel /= ""
               /\ cache' = cache \cup {key}
               /\ fsBin' = fsBin \cup {join(CachePath(key), rel)}
               /\ Return(Str(CachePath(key)))
               /\ UNCHANGED thrown
  /\ UNCHANGED <<env, args, githubToken, PATH, downloadURL, layout,
                 binaryPath, result, failed>>

\* @actions/io which(tool, check): the tool in the first directory of the
\* search path that holds it, "" when none does.
RECURSIVE which(_, _)
which(path, bins) ==
  IF path = <<>> THEN ""
  ELSE IF Head(path) \in bins THEN join(Head(path), "lekko")
  ELSE which(Tail(path), bins)

\* binDir without the "bin" subdirectory of run.ts:71.
binDirRoot(platform, installDir) == installDir

\* run.ts:68-72: the directory put on the search path.
binDir(platform, installDir) ==
  IF platform = "win32" THEN installDir ELSE join(installDir, "bin")

\* core.addPath prepends.
addPath(path, dir) == <<dir>> \o path

\* run.ts:60-78: an Error from getLekko is returned as it is; otherwise the
\* install's directory is prepended to the search path and lekko is looked
\* up on it.  io.which is called with check = true, so it throws when the
\* lookup finds nothing.
RunSetupInstall ==
  /\ pc = "returned"
  /\ entry = "run"
  /\ IF isError(ret)
     THEN /\ result' = ret
          /\ pc' = "settle"
          /\ UNCHANGED <<PATH, trace, binaryPath, thrown>>
     ELSE LET dir == binDir(hostPlatform, ret.str)
              found == which(addPath(PATH, dir), fsBin)
          IN  /\ PATH' = addPath(PATH, dir)
              /\ Log([op |-> "addPath", dir |-> dir])
              /\ IF found = ""
                 THEN /\ \E e \in Thrown("Unable to locate executable file: lekko") : Throw(e)
                      /\ UNCHANGED <<binaryPath, result>>
                 ELSE /\ binaryPath' = found
                      /\ IF found = ""
                         THEN /\ result' = Err("lekko was not found on PATH")
                              /\ pc' = "settle"
                         ELSE /\ pc' = "exec"
                              /\ UNCHANGED result
                      /\ UNCHANGED thrown
  /\ UNCHANGED <<env, args, githubToken, cache, fsBin, downloadURL, layout,
                 ret, failed>>

\* run.ts:80-82: `<binaryPath> --version` is run with execSync, which throws
\* an Error when the command fails; then runSetup returns null.
RunSetupVersion ==
  /\ pc = "exec"
  /\ Log([op |-> "exec", command |-> binaryPath \o " --version"])
  /\ \/ /\ Throw(Err("Command failed: " \o binaryPath \o " --version"))
        /\ UNCHANGED result
     \/ /\ result' = Null
        /\ pc' = "settle"
        /\ UNCHANGED thrown
  /\ UNCHANGED <<env, args, githubToken, cache, fsBin, PATH, downloadURL,
                 layout, ret, binaryPath, failed>>

\* core.setFailed
setFailed(log, message) == Append(log, message)

\* run() without the return of run.ts:36.
runOutcomeNoReturn(log, value, caught) ==
  IF caught /= None
  THEN IF isError(caught)
       THEN setFailed(setFailed(log, caught.message), "Internal error")
       ELSE setFailed(log, "Internal error")
  ELSE IF value /= Null /\ isError(value) THEN setFailed(log, value.message)
  ELSE log

\* run.ts:24-39: the calls of core.setFailed that run() makes: the returned
\* Error's message, or, in the catch clause, the caught value's message when
\* it is an Error and "Internal error" otherwise.
runOutcome(log, value, caught) ==
  IF caught /= None
  THEN IF isError(caught) THEN setFailed(log, caught.message)
       ELSE setFailed(log, "Internal error")
  ELSE IF value /= Null /\ isError(value) THEN setFailed(log, value.message)
  ELSE log

\* run.ts:23-40: run() settles the run once runSetup has returned or thrown.
RunSettle ==
  /\ pc = "settle"
  /\ failed' = runOutcome(failed, result, thrown)
  /\ pc' = "done"
  /\ UNCHANGED <<env, args, githubToken, cache, fsBin, PATH, trace,
                 downloadURL, layout, ret, binaryPath, result, thrown>>

Next ==
  \/ RunSetupStart
  \/ Find
  \/ Exchange
  \/ Locate
  \/ Download
  \/ Extract
  \/ Cache
  \/ RunSetupInstall
  \/ RunSetupVersion
  \/ RunSettle

Spec == Init /\ [][Next]_vars

\* ---------------------------------------------------------------- claims
Ops(S) == {i \in 1..Len(trace) : trace[i].op \in S}
NetworkOps == {"exchange", "releases", "releaseByTag", "download"}
QueryOps == {"releases", "releaseByTag"}
InstallOps == {"extract", "cacheDir"}

\* The lookup of this call found an entry.
CacheHit == \E i \in Ops({"find"}) : trace[i].found /= ""
CacheMiss == \E i \in Ops({"find"}) : trace[i].found = ""

\* C1, as a state predicate: after a cache hit getLekko has returned exactly
\* the path found, and the call has made no token exchange, no registry
\* query and no download, and has extracted and cached nothing.
C1_HitState ==
  CacheHit =>
    /\ \A i \in Ops({"find"}) :
         /\ trace[i].key = <<"lekko", args.version, hostArch>>
         /\ trace[i].key \in cache
         /\ ret = Str(trace[i].found)
    /\ pc \notin {"exchange", "locate", "download", "extract", "cache"}
    /\ thrown = None \/ entry = "run"
    /\ Ops(NetworkOps) = {}
    /\ Ops(InstallOps) = {}

\* C1: for every version and host architecture, when the tool cache holds
\* an entry for (lekko, version, architecture) at the call, getLekko returns
\* exactly that cached path, performs no network operation (no token
\* exchange, no registry query, no archive download) and never writes to
\* the cache afterwards.
C1_CacheHitNoNetwork ==
  /\ [](C1_HitState)
  /\ [][CacheHit => cache' = cache]_vars

\* C1 witness: a hit in lekko.ts with an API key supplied, where a miss
\* would have started the exchange.
C1_Witness ==
  /\ CacheHit
  /\ pc = "returned"
  /\ impl = "lekko.ts"
  /\ args.apikey /= ""
  /\ args.version = "v1"

\* The exchange answered, and its answer holds no usable token: a non-2xx
\* status, or a body whose token is missing or empty.
ExchangeRefused(e) ==
  /\ e.responded
  /\ \/ ~e.ok
     \/ "token" \notin DOMAIN e.data
     \/ e.data = [token |-> ""]

\* C2: with a non-empty API key and a cache miss, when the exchange answers
\* with a non-2xx status or with a body whose token is missing or empty,
\* getLekko returns an Error and the run makes no registry query, no
\* download, no extraction and no cache write, whatever github_token was
\* passed; run() then marks the run failed with that Error's message.
C2_ExchangeFailureStops ==
  \A i \in Ops({"exchange"}) :
    ExchangeRefused(trace[i]) =>
      /\ args.apikey /= ""
      /\ CacheMiss
      /\ isError(ret)
      /\ thrown = None
      /\ Ops(QueryOps \cup {"download"} \cup InstallOps) = {}
      /\ cache = {k \in cache : k /= <<"lekko", args.version, hostArch>>}
      /\ pc \in {"returned", "settle", "done"}
      /\ pc = "done" => failed = <<ret.message>>

\* C2 witness: a 2xx answer with an empty token, a github_token supplied too.
C2_Witness ==
  /\ \E i \in Ops({"exchange"}) :
       /\ trace[i].responded
       /\ trace[i].ok
       /\ trace[i].data = [token |-> ""]
  /\ args.githubToken = "T"
  /\ pc = "returned"

\* The token the exchange handed out in this run ("" when there was none).
ExchangeResult ==
  IF \E i \in Ops({"exchange"}) : ~ExchangeRefused(trace[i]) /\ trace[i].responded
  THEN (trace[CHOOSE i \in Ops({"exchange"}) : trace[i].responded]).data.token
  ELSE ""

\* C3: one credential per run, the API key first.  With a non-empty API key
\* every registry query and the download carry the token the exchange
\* returned, the exchange is made once with that API key, and the
\* github_token passed in is sent nowhere; with an empty API key there is no
\* exchange and both requests carry the github_token passed in, unchanged.
C3_CredentialPrecedence ==
  /\ Cardinality(Ops({"exchange"})) <= 1
  /\ args.apikey /= "" =>
       /\ \A i \in Ops({"exchange"}) : trace[i].apikey = args.apikey
       /\ \A i \in Ops(QueryOps \cup {"download"}) :
            /\ Ops({"exchange"}) /= {}
            /\ \A j \in Ops({"exchange"}) : j < i
            /\ ExchangeResult /= ""
            /\ trace[i].op \in QueryOps => trace[i].auth = ExchangeResult
            /\ trace[i].op = "download" =>
                 trace[i].auth = (IF impl = "lekko.ts" THEN "Bearer " ELSE "") \o ExchangeResult
            /\ args.githubToken /= "" => ~Mentions(trace[i].auth, args.githubToken)
  /\ args.apikey = "" =>
       /\ Ops({"exchange"}) = {}
       /\ \A i \in Ops(QueryOps) : trace[i].auth = args.githubToken
       /\ \A i \in Ops({"download"}) :
            trace[i].auth = (IF impl = "lekko.ts" THEN "Bearer " ELSE "") \o args.githubToken

\* C3 witness: an API key and a github_token were both passed, and the
\* query and the download have both been made.
C3_Witness ==
  /\ args.apikey = "K"
  /\ args.githubToken = "T"
  /\ Ops(QueryOps) /= {}
  /\ Ops({"download"}) /= {}

\* C3, the other case reached too: no API key, the github_token used.
C3_WitnessNoKey ==
  /\ impl = "lekko.ts"
  /\ args.apikey = ""
  /\ args.githubToken = "T"
  /\ Ops(QueryOps) /= {}
  /\ Ops({"download"}) /= {}

\* C4 as claimed (refuted by runSetup): a run with neither github_token nor
\* apikey fails with a configuration error before any cache lookup or
\* network call, and a run with an apikey but no github_token is not
\* rejected for the missing github_token.
C4_TokenRequiredOnlyWithoutApiKey ==
  (entry = "run" /\ pc = "done" /\ getInput("version") /= ""
     /\ getInput("github_token") = "") =>
    /\ getInput("apikey") = "" =>
         /\ isError(result)
         /\ failed = <<result.message>>
         /\ trace = <<>>
    /\ getInput("apikey") /= "" =>
         result /= Err("No github_token supplied, won't be able to download lekko")

\* An uncaught exception reached run().
Caught == entry = "run" /\ thrown /= None

\* C5 as claimed (refuted by run()): a finished run that failed was marked
\* failed exactly once; a returned Error is reported with its own message,
\* and every exception caught by run() is reported as "Internal error".
C5_CaughtIsInternalError ==
  (entry = "run" /\ pc = "done") =>
    /\ Len(failed) <= 1
    /\ (result /= None /\ isError(result)) => failed = <<result.message>>
    /\ Caught => failed = <<"Internal error">>
    /\ (~Caught /\ result = Null) => failed = <<>>

\* C5, amended: every finished run was marked failed at most once, and
\* exactly once when any stage failed; a returned Error is reported with
\* its own message; an exception caught by run() is reported with its own
\* message when it carries one and as "Internal error" otherwise; a run
\* whose runSetup returned null is not marked failed.  No exception leaves
\* run(), and core.setFailed is never called before run() settles.
C5_EveryFailureReportedOnce ==
  /\ pc /= "done" /\ entry = "run" => failed = <<>>
  /\ (entry = "run" /\ pc = "done") =>
       /\ Len(failed) <= 1
       /\ (result /= None /\ isError(result)) => failed = <<result.message>>
       /\ (Caught /\ isError(thrown)) => failed = <<thrown.message>>
       /\ (Caught /\ ~isError(thrown)) => failed = <<"Internal error">>
       /\ (~Caught /\ result = Null) => failed = <<>>
       /\ Caught \/ result /= None
       /\ ~(Caught /\ result /= None)

\* C5 witness: the download threw an Error, and run() reported its message.
C5_Witness ==
  /\ entry = "run"
  /\ pc = "done"
  /\ Ops({"download"}) /= {}
  /\ Ops({"extract"}) = {}
  /\ thrown = Err("Unexpected HTTP response: 404")
  /\ failed = <<"Unexpected HTTP response: 404">>

\* C6 as claimed (refuted by runSetup): once the install directory was
\* obtained, the search path updated and lekko resolved to a non-empty
\* path, the run ends unmarked, whether `lekko --version` succeeds or not.
C6_VersionCheckNotPartOfSuccess ==
  (entry = "run" /\ pc = "done" /\ ret /= None /\ ~isError(ret)
     /\ Ops({"addPath"}) /= {} /\ binaryPath /= "") =>
    failed = <<>>

\* The publisher's tokens, as documented.
ArchToken == [x64 |-> "x86_64", arm64 |-> "arm64"]
OSToken == [linux |-> "Linux", darwin |-> "Darwin"]
SupportedHost == hostArch \in DOMAIN ArchToken /\ hostPlatform \in DOMAIN OSToken

\* The asset name the documented convention gives this host.
ExpectedAsset == "lekko_" \o OSToken[hostPlatform] \o "_" \o ArchToken[hostArch] \o ".tar.gz"

\* C7: whenever getDownloadURL has resolved the host, a pair in
\* {x64, arm64} x {linux, darwin} gave x64->x86_64, arm64->arm64,
\* linux->Linux, darwin->Darwin and the asset name
\* lekko_<OSToken>_<ArchToken>.tar.gz, and any other pair made getLekko
\* return an Error whose message names an unsupported raw value, with no
\* registry query (and no download) made.
C7_PlatformResolution ==
  \A i \in Ops({"resolve"}) :
    /\ trace[i].arch = hostArch /\ trace[i].platform = hostPlatform
    /\ SupportedHost =>
         /\ trace[i].result = Str(ExpectedAsset)
         /\ resolveArchitecture(hostArch) = Str(ArchToken[hostArch])
         /\ resolvePlatform(hostPlatform) = Str(OSToken[hostPlatform])
         /\ Ops(QueryOps) = {i + 1}
    /\ ~SupportedHost =>
         /\ isError(trace[i].result)
         /\ ret = trace[i].result
         /\ \/ hostArch \notin DOMAIN ArchToken
               /\ Mentions(ret.message, "\"" \o hostArch \o "\" architecture is not supported")
            \/ hostArch \in DOMAIN ArchToken /\ hostPlatform \notin DOMAIN OSToken
               /\ Mentions(ret.message, "\"" \o hostPlatform \o "\" platform is not supported")
         /\ Ops(QueryOps \cup {"download"}) = {}
         /\ thrown = None

\* C7 witness: a supported host was resolved, and so was an unsupported
\* operating system on a supported architecture (two runs; this is the
\* supported one, on darwin/arm64, with the query made).
C7_Witness ==
  /\ hostArch = "arm64" /\ hostPlatform = "darwin"
  /\ Ops({"resolve"}) /= {}
  /\ Ops(QueryOps) /= {}

\* C7, the failing case reached too: win32 on x64.
C7_WitnessUnsupported ==
  /\ hostArch = "x64" /\ hostPlatform = "win32"
  /\ Ops({"resolve"}) /= {}
  /\ isError(ret)

\* The positions of the assets named `name` in an asset list.
Matches(assets, name) == {k \in 1..Len(assets) : assets[k].name = name}

\* C8 as claimed (refuted by getDownloadURL on an empty release list): for
\* every 2xx answer to the release-list query (page size 1) and to the
\* release-by-tag query, when the release's assets hold one named exactly
\* lekko_<OSToken>_<ArchToken>.tar.gz the locator yields that asset's URL,
\* and when no asset matches getLekko returns an Error value whose message
\* mentions both the platform token and the architecture token.
C8_AssetLookup ==
  \A i \in Ops(QueryOps) :
    trace[i].ok =>
      LET assets == IF trace[i].data = <<>> THEN <<>> ELSE trace[i].data[1].assets
          hits == Matches(assets, ExpectedAsset)
      IN  /\ trace[i].op = "releases" => trace[i].per_page = 1
          /\ hits /= {} =>
               /\ \E k \in hits : downloadURL = assets[k].url
               /\ ~isError(ret)
          /\ hits = {} =>
               /\ isError(ret)
               /\ Mentions(ret.message, OSToken[hostPlatform])
               /\ Mentions(ret.message, ArchToken[hostArch])
               /\ thrown = None
               /\ downloadURL = ""

\* The version starts with "v".
Prefixed(v) == Len(v) >= 1 /\ SubSeq(v, 1, 1) = "v"

\* C9: the tag of a version that does not start with "v" is "v" followed
\* by the version, the tag of one that does is the version itself, tagging
\* twice is tagging once, and every release-by-tag query is made with the
\* tag of the version getLekko was called with.
C9_ReleaseTag ==
  LET v == inputs.version
      tag == releaseTagForVersion(v)
  IN  /\ ~Prefixed(v) => tag = "v" \o v
      /\ Prefixed(v) => tag = v
      /\ releaseTagForVersion(tag) = tag
      /\ \A i \in Ops({"releaseByTag"}) :
           /\ args.version = v
           /\ trace[i].tag = (IF Prefixed(v) THEN v ELSE "v" \o v)

\* C9 witness: the query for version "v1" was made, with tag "v1".
C9_Witness ==
  /\ inputs.version = "v1"
  /\ \E i \in Ops({"releaseByTag"}) : trace[i].tag = "v1"

\* C9, the unprefixed case reached too: version "1" asked for as "v1".
C9_WitnessUnprefixed ==
  /\ inputs.version = "1"
  /\ \E i \in Ops({"releaseByTag"}) : trace[i].tag = "v1"

\* A run of the action that ended unmarked after a cache miss.
MissSucceeded ==
  /\ entry = "run"
  /\ pc = "done"
  /\ failed = <<>>
  /\ CacheMiss

\* The entry a run caches: its key and its path.
InstallKey == <<"lekko", getInput("version"), hostArch>>
InstallPath == "/opt/hostedtoolcache/lekko/" \o getInput("version") \o "/" \o hostArch

\* What C10 says of the steps before the lookup of the binary: one
\* download, one extraction, one cache write under (lekko, version as
\* supplied, host architecture), and the cached directory's "bin"
\* subdirectory (the directory itself on win32) first on the search path.
InstalledAndOnPath ==
  /\ SupportedHost
  /\ getInput("version") /= ""
  /\ Cardinality(Ops({"download"})) = 1
  /\ Cardinality(Ops({"extract"})) = 1
  /\ \E i \in Ops({"cacheDir"}) : Ops({"cacheDir"}) = {i} /\ trace[i].key = InstallKey
  /\ InstallKey \in cache
  /\ ret = Str(InstallPath)
  /\ PATH = <<IF hostPlatform = "win32" THEN InstallPath ELSE InstallPath \o "/bin",
              "/usr/local/bin">>

\* C10 as claimed (refuted by runSetup): a run that succeeds after a cache
\* miss has downloaded, extracted and cached the archive under (lekko,
\* version, architecture), has put the install's bin directory first on the
\* search path, and its resolved binary path is non-empty and lies inside
\* that directory.
C10_BinaryInsideInstall ==
  MissSucceeded =>
    /\ InstalledAndOnPath
    /\ binaryPath /= ""
    /\ Inside(binaryPath, PATH[1])

\* C10, amended: ... and its resolved binary path is non-empty and is the
\* lekko of the first directory of the updated search path that holds one;
\* it lies inside the prepended directory whenever that directory holds
\* the executable.
C10_BinaryFirstOnPath ==
  MissSucceeded =>
    /\ InstalledAndOnPath
    /\ binaryPath /= ""
    /\ \E k \in 1..Len(PATH) :
         /\ binaryPath = PATH[k] \o "/lekko"
         /\ PATH[k] \in fsBin
         /\ \A j \in 1..(k - 1) : PATH[j] \notin fsBin
    /\ PATH[1] \in fsBin => Inside(binaryPath, PATH[1])

\* C10 witness: version "1" installed on linux/x64 by lekko.ts, and the
\* binary resolved inside the cached install's bin directory.
C10_Witness ==
  /\ MissSucceeded
  /\ impl = "lekko.ts"
  /\ hostArch = "x64" /\ hostPlatform = "linux"
  /\ binaryPath = "/opt/hostedtoolcache/lekko/1/x64/bin/lekko"

\* The effectful steps, in the order the code takes them.
StepRank ==
  [exchange |-> 1, releases |-> 2, releaseByTag |-> 2, download |-> 3,
   extract |-> 4, cacheDir |-> 5, addPath |-> 6]
Steps == Ops(DOMAIN StepRank)

\* A step has failed: an exception is propagating, or getLekko or runSetup
\* returned an Error.
Failed ==
  \/ thrown /= None
  \/ ret /= None /\ isError(ret)
  \/ result /= None /\ isError(result)

\* The steps made so far are in the order exchange, query, download,
\* extraction, cache write, search-path prepend, each at most once; the
\* exchange is made only with an API key (and then before the query); after
\* a cache miss a step is in the trace only with every step before it, the
\* query only after an exchange that handed out a token, the download only
\* for the URL of a matching asset of a 2xx answer; after a hit the prepend
\* is the only step.
StepsInOrder ==
  /\ \A i, j \in Steps : i < j => StepRank[trace[i].op] < StepRank[trace[j].op]
  /\ \A i \in Ops({"exchange"}) : impl = "lekko.ts" /\ args.apikey /= ""
  /\ \A i \in Ops(QueryOps) :
       (impl = "lekko.ts" /\ args.apikey /= "") =>
         \E j \in Ops({"exchange"}) :
           j < i /\ trace[j].responded /\ ~ExchangeRefused(trace[j])
  /\ \A i \in Steps :
       IF CacheHit THEN trace[i].op = "addPath"
       ELSE \A r \in 2..(StepRank[trace[i].op] - 1) :
              \E j \in Steps : j < i /\ StepRank[trace[j].op] = r
  /\ \A i \in Ops({"download"}) :
       \E j \in Ops(QueryOps) :
         /\ trace[j].ok /\ trace[j].data /= <<>>
         /\ \E k \in Matches(trace[j].data[1].assets, ExpectedAsset) :
              trace[i].url = trace[j].data[1].assets[k].url
  /\ \A i \in Ops({"addPath"}) :
       /\ ret /= None /\ ~isError(ret)
       /\ CacheMiss => InstallKey \in cache

\* Once a step has failed nothing more is done: no step, no cache write, no
\* change of the search path.
NothingAfterFailure ==
  Failed => /\ trace' = trace
            /\ cache' = cache
            /\ PATH' = PATH

\* The cache and the search path change only in their own steps, made
\* after everything before them succeeded.
ChangesOnlyInSteps ==
  /\ cache' /= cache =>
       /\ ~Failed /\ ~Failed'
       /\ cache' = cache \cup {InstallKey}
       /\ trace' = Append(trace, trace'[Len(trace')])
       /\ trace'[Len(trace')].op = "cacheDir"
  /\ PATH' /= PATH =>
       /\ ~Failed
       /\ trace' = Append(trace, trace'[Len(trace')])
       /\ trace'[Len(trace')].op = "addPath"
       /\ PATH' = <<trace'[Len(trace')].dir>> \o PATH

\* The tool cache and the search path are as the run found them.
Untouched ==
  /\ PATH = <<SystemBin>>
  /\ CacheMiss => InstallKey \notin cache

\* C11 as claimed (refuted by runSetup): the steps are made in order, each
\* at most once and only after the one before succeeded, and every failed
\* install (a run that missed the cache and then failed) leaves the tool
\* cache and the search path unchanged.
C11_FailedInstallChangesNothing ==
  /\ StepsInOrder
  /\ (Failed /\ CacheMiss) => Untouched

\* C11, amended: within one run the steps exchange (only with an API key),
\* registry query, download, extraction, cache write, search-path prepend
\* are made in that order, each at most once, each only after the one
\* before succeeded; once a step fails no later step is made and neither
\* the cache nor the search path changes any more; so a run that fails
\* before the search-path prepend leaves the tool cache and the search path
\* unchanged (a run that fails later, at the lookup of the binary or at the
\* --version call, has already prepended the path and, after a miss,
\* written the cache).
C11_StepsInOrderNoRetry ==
  /\ [](StepsInOrder)
  /\ []((Failed /\ Ops({"addPath"}) = {}) => Untouched)
  /\ [][NothingAfterFailure /\ ChangesOnlyInSteps]_vars

\* C11 witness: a run with an API key exchanged it, queried the release,
\* downloaded the archive and failed at the extraction; it was marked
\* failed with the cache and the search path as they were.
C11_Witness ==
  /\ entry = "run"
  /\ pc = "done"
  /\ [i \in 1..Len(trace) |-> trace[i].op]
       = <<"find", "exchange", "resolve", "releaseByTag", "download", "extract">>
  /\ thrown = Err("tar exited with code 2")
  /\ failed = <<"tar exited with code 2">>
  /\ cache = {}
  /\ PATH = <<"/usr/local/bin">>

\* C11, the last step reached too: all six steps made, in order.
C11_WitnessAllSteps ==
  [i \in 1..Len(trace) |-> trace[i].op]
    = <<"find", "exchange", "resolve", "releases", "download", "extract",
        "cacheDir", "addPath">>

====
